---------------------------- MODULE Spec2Model ----------------------------
(*
  LS-8 emulator (src/ls8/cpu.py, src/ls8/ls8.py).

  The state is the CPU object (ram, reg, pc, running, flags), the text of the
  program file handed to load(), the standard output written by PRN / PRA and
  the exception, if any, that ended the script.  One action models load(), one
  the call of run(), one each handler's whole fetch-decode-execute cycle, one
  each failure of a cycle, and one the exit of run()'s loop.

  Python's integers are unbounded and its list indexing accepts the indices
  -len .. len-1 (a negative index counts from the end); both are modelled as
  they are, since neither load() nor the handlers mask what they store.
*)
EXTENDS Integers, Sequences, FiniteSets, TLC

VARIABLES
    file,      \* f.readlines() of the program file: a sequence of lines, each a sequence of characters
    stage,     \* position of the script: constructed, loaded, running, returned, failed
    ram,       \* self.ram
    reg,       \* self.reg
    pc,        \* self.pc
    running,   \* self.running
    flags,     \* self.flags
    out,       \* standard output, a sequence of code points
    err,       \* the exception that ended the script, or "none"
    runs,      \* number of calls of run() so far
    cycles,    \* number of cycles started so far
    prev,      \* the last completed cycle: its opcode, operands, and pc and reg before it
    prev2,     \* the completed cycle before that one
    byte_image,\* whether every value load() wrote to memory was in 0..255
    nest,      \* the PUSHes and CALLs completed back to back and not yet undone
    stretch    \* the completed cycles since the last one that set pc itself

vars ==
    <<file, stage, ram, reg, pc, running, flags, out, err, runs, cycles, prev, prev2,
      byte_image, nest, stretch>>

-----------------------------------------------------------------------------
(* Opcodes, cpu.py lines 5-40 *)

NOP == 0
HLT == 1
ADD == 160
SUB == 161
DIV == 163
MUL == 162
MOD == 164
AND == 168
NOT == 105
OR == 170
XOR == 171
SHL == 172
SHR == 173
CALL == 80
RET == 17
POP == 70
PUSH == 69
JMP == 84
CMP == 167
JEQ == 85
JNE == 86
JGE == 90
JGT == 87
JLE == 89
JLT == 88
LD == 131
ST == 132
LDI == 130
DEC == 102
INC == 101
INT == 82
IRET == 19
PRA == 72
PRN == 71

SP == 7

RamSize == 256
RegCount == 8

\* the handlers that __init__ registers as real implementations
Implemented ==
    {NOP, HLT, ADD, MUL, CALL, RET, POP, PUSH, JMP, CMP, JEQ, JNE,
     LD, LDI, DEC, INC, PRA, PRN}

\* the opcodes that __init__ registers as self.unimplemented_op
Placeholder ==
    {SUB, DIV, MOD, AND, NOT, OR, XOR, SHL, SHR, JGE, JGT, JLE, JLT,
     ST, INT, IRET}

\* the keys of self.instruction_table
instruction_table == Implemented \cup Placeholder

-----------------------------------------------------------------------------
(* Python list indexing: list[i] is defined for -len <= i < len *)

IndexOK(i, len) == i >= -len /\ i < len

Index(i, len) == IF i < 0 THEN i + len ELSE i

RamOK(i) == IndexOK(i, RamSize)

RegOK(i) == IndexOK(i, RegCount)

RamAt(m, i) == m.ram[Index(i, RamSize)]

RegAt(m, i) == m.reg[Index(i, RegCount)]

SetReg(m, i, v) == [m EXCEPT !.reg[Index(i, RegCount)] = v]

SetRam(m, i, v) == [m EXCEPT !.ram[Index(i, RamSize)] = v]

Raise(m, e) == [m EXCEPT !.err = e]

Failed(m) == m.err # "none"

\* x & 0xFF on a Python int of either sign
Mask8(x) == x % 256

-----------------------------------------------------------------------------
(* The machine as the handlers see it *)

Machine ==
    [ram |-> ram, reg |-> reg, pc |-> pc, running |-> running,
     flags |-> flags, out |-> out, err |-> "none"]

\* format(n, "d"): the code points of the decimal digits, "-" first if negative
RECURSIVE Digits(_)
Digits(n) == IF n < 10 THEN <<48 + n>> ELSE Append(Digits(n \div 10), 48 + (n % 10))

Decimal(n) == IF n < 0 THEN <<45>> \o Digits(-n) ELSE Digits(n)

\* push_stack storing before it decrements
push_stack_post(m, val) ==
    IF ~RamOK(m.reg[SP]) THEN Raise(m, "IndexError")
    ELSE [SetRam(m, m.reg[SP], val) EXCEPT !.reg[SP] = m.reg[SP] - 1]

push_stack(m, val) ==
    LET m1 == [m EXCEPT !.reg[SP] = m.reg[SP] - 1]
    IN  IF ~RamOK(m1.reg[SP]) THEN Raise(m1, "IndexError")
        ELSE SetRam(m1, m1.reg[SP], val)

\* a pop_stack that reads the top cell and leaves the stack pointer where it is
pop_stack_peek(m) ==
    IF ~RamOK(m.reg[SP]) THEN [m |-> Raise(m, "IndexError"), val |-> 0]
    ELSE [m |-> m, val |-> RamAt(m, m.reg[SP])]

\* the machine after pop_stack and the value it returns
pop_stack(m) ==
    IF ~RamOK(m.reg[SP]) THEN [m |-> Raise(m, "IndexError"), val |-> 0]
    ELSE [m |-> [m EXCEPT !.reg[SP] = m.reg[SP] + 1], val |-> RamAt(m, m.reg[SP])]

\* a placeholder that returns silently
unimplemented_silent(m, op, a, b) == m

unimplemented_op(m, op, a, b) == Raise(m, "UnimplementedOpcode")

\* an LDI that keeps the low eight bits of the literal
op_ldi_masked(m, op, a, b) ==
    IF ~RegOK(a) THEN Raise(m, "IndexError") ELSE SetReg(m, a, Mask8(b))

op_ldi(m, op, a, b) ==
    IF ~RegOK(a) THEN Raise(m, "IndexError") ELSE SetReg(m, a, b)

op_ld(m, op, a, b) ==
    IF ~RegOK(b) THEN Raise(m, "IndexError")
    ELSE IF ~RamOK(RegAt(m, b)) THEN Raise(m, "IndexError")
    ELSE IF ~RegOK(a) THEN Raise(m, "IndexError")
    ELSE SetReg(m, a, RamAt(m, RegAt(m, b)))

op_add(m, op, a, b) ==
    IF ~RegOK(a) \/ ~RegOK(b) THEN Raise(m, "IndexError")
    ELSE SetReg(m, a, RegAt(m, a) + RegAt(m, b))

op_mul(m, op, a, b) ==
    IF ~RegOK(a) \/ ~RegOK(b) THEN Raise(m, "IndexError")
    ELSE SetReg(m, a, RegAt(m, a) * RegAt(m, b))

op_inc(m, op, a, b) ==
    IF ~RegOK(a) THEN Raise(m, "IndexError") ELSE SetReg(m, a, RegAt(m, a) + 1)

op_dec(m, op, a, b) ==
    IF ~RegOK(a) THEN Raise(m, "IndexError") ELSE SetReg(m, a, RegAt(m, a) - 1)

\* op_prn without end="": a newline follows the digits
op_prn_newline(m, op, a, b) ==
    IF ~RegOK(a) THEN Raise(m, "IndexError")
    ELSE [m EXCEPT !.out = m.out \o Decimal(RegAt(m, a)) \o <<10>>]

op_prn(m, op, a, b) ==
    IF ~RegOK(a) THEN Raise(m, "IndexError")
    ELSE [m EXCEPT !.out = m.out \o Decimal(RegAt(m, a))]

op_pra(m, op, a, b) ==
    IF ~RegOK(a) THEN Raise(m, "IndexError")
    ELSE IF RegAt(m, a) < 0 \/ RegAt(m, a) > 1114111 THEN Raise(m, "OverflowError")
    ELSE [m EXCEPT !.out = Append(m.out, RegAt(m, a))]

op_nop(m, op, a, b) == m

op_hlt(m, op, a, b) == [m EXCEPT !.running = FALSE]

op_push(m, op, a, b) ==
    IF ~RegOK(a) THEN Raise(m, "IndexError") ELSE push_stack(m, RegAt(m, a))

op_pop(m, op, a, b) ==
    LET p == pop_stack(m)
    IN  IF Failed(p.m) THEN p.m
        ELSE IF ~RegOK(a) THEN Raise(p.m, "IndexError")
        ELSE SetReg(p.m, a, p.val)

\* op_call pushing the address of the CALL itself
op_call_own_address(m, op, a, b) ==
    LET m1 == push_stack(m, m.pc)
    IN  IF Failed(m1) THEN m1
        ELSE IF ~RegOK(a) THEN Raise(m1, "IndexError")
        ELSE [m1 EXCEPT !.pc = RegAt(m1, a)]

op_call(m, op, a, b) ==
    LET m1 == push_stack(m, m.pc + 2)
    IN  IF Failed(m1) THEN m1
        ELSE IF ~RegOK(a) THEN Raise(m1, "IndexError")
        ELSE [m1 EXCEPT !.pc = RegAt(m1, a)]

op_ret(m, op, a, b) ==
    LET p == pop_stack(m)
    IN  IF Failed(p.m) THEN p.m ELSE [p.m EXCEPT !.pc = p.val]

CmpFlags(x, y) ==
    (IF x = y THEN 1 ELSE 0) + (IF x > y THEN 2 ELSE 0) + (IF x < y THEN 4 ELSE 0)

op_cmp(m, op, a, b) ==
    IF ~RegOK(a) \/ ~RegOK(b) THEN Raise(m, "IndexError")
    ELSE [m EXCEPT !.flags = CmpFlags(RegAt(m, a), RegAt(m, b))]

\* the Greater bit tested in place of the Equal bit
GreaterBit(f) == (f \div 2) % 2

\* flags & 0b00000001
EqualBit(f) == f % 2

\* a JEQ that clears the flags as it reads them
op_jeq_clearing(m, op, a, b) ==
    IF EqualBit(m.flags) # 0
    THEN IF ~RegOK(a) THEN Raise(m, "IndexError")
         ELSE [m EXCEPT !.pc = RegAt(m, a), !.flags = 0]
    ELSE [m EXCEPT !.pc = m.pc + 2, !.flags = 0]

op_jeq(m, op, a, b) ==
    IF EqualBit(m.flags) # 0
    THEN IF ~RegOK(a) THEN Raise(m, "IndexError") ELSE [m EXCEPT !.pc = RegAt(m, a)]
    ELSE [m EXCEPT !.pc = m.pc + 2]

op_jne(m, op, a, b) ==
    IF EqualBit(m.flags) = 0
    THEN IF ~RegOK(a) THEN Raise(m, "IndexError") ELSE [m EXCEPT !.pc = RegAt(m, a)]
    ELSE [m EXCEPT !.pc = m.pc + 2]

op_jmp(m, op, a, b) ==
    IF ~RegOK(a) THEN Raise(m, "IndexError") ELSE [m EXCEPT !.pc = RegAt(m, a)]

-----------------------------------------------------------------------------
(* run(): decoding and the steps after the handler *)

\* (0b11000000 & op) >> 6
op_size(op) == (op % 256) \div 64

\* ((0b00100000 & op) >> 5) == 1
is_alu(op) == ((op % 256) \div 32) % 2 = 1

\* ((0b00010000 & op) >> 4) == 1
sets_pc(op) == ((op % 256) \div 16) % 2 = 1

\* the loop without its masking step
AluMaskSkipped(m, op, a) == m

\* if is_alu: self.reg[a] &= 0xFF
AluMask(m, op, a) ==
    IF ~is_alu(op) THEN m
    ELSE IF ~RegOK(a) THEN Raise(m, "IndexError")
    ELSE SetReg(m, a, Mask8(RegAt(m, a)))

\* an advance by the operand count alone
AdvanceBySize(m, op) ==
    IF sets_pc(op) THEN m ELSE [m EXCEPT !.pc = m.pc + op_size(op)]

\* an advance that does not look at the sets_pc bit
AdvanceAlways(m, op) == [m EXCEPT !.pc = m.pc + 1 + op_size(op)]

\* if not sets_pc: self.pc += 1 + op_size
Advance(m, op) ==
    IF sets_pc(op) THEN m ELSE [m EXCEPT !.pc = m.pc + 1 + op_size(op)]

\* what follows the handler's return in the loop body; an exception skips it
AfterHandler(m, op, a) ==
    IF Failed(m) THEN m
    ELSE LET m1 == AluMask(m, op, a)
         IN  IF Failed(m1) THEN m1 ELSE Advance(m1, op)

\* the three reads at the top of the loop body
FetchOK == RamOK(pc) /\ RamOK(pc + 1) /\ RamOK(pc + 2)

FetchOp == ram[Index(pc, RamSize)]

FetchA == ram[Index(pc + 1, RamSize)]

FetchB == ram[Index(pc + 2, RamSize)]

\* the entries of self.instruction_table: the handler registered for op
Dispatch(m, op, a, b) ==
    CASE op = NOP  -> op_nop(m, op, a, b)
      [] op = HLT  -> op_hlt(m, op, a, b)
      [] op = ADD  -> op_add(m, op, a, b)
      [] op = MUL  -> op_mul(m, op, a, b)
      [] op = CALL -> op_call(m, op, a, b)
      [] op = RET  -> op_ret(m, op, a, b)
      [] op = POP  -> op_pop(m, op, a, b)
      [] op = PUSH -> op_push(m, op, a, b)
      [] op = JMP  -> op_jmp(m, op, a, b)
      [] op = CMP  -> op_cmp(m, op, a, b)
      [] op = JEQ  -> op_jeq(m, op, a, b)
      [] op = JNE  -> op_jne(m, op, a, b)
      [] op = LD   -> op_ld(m, op, a, b)
      [] op = LDI  -> op_ldi(m, op, a, b)
      [] op = DEC  -> op_dec(m, op, a, b)
      [] op = INC  -> op_inc(m, op, a, b)
      [] op = PRA  -> op_pra(m, op, a, b)
      [] op = PRN  -> op_prn(m, op, a, b)
      [] op \in Placeholder -> unimplemented_op(m, op, a, b)
      [] OTHER -> Raise(m, "UnknownOpcode")

\* one pass of the loop body on the current state
CycleResult ==
    IF ~FetchOK THEN Raise(Machine, "IndexError")
    ELSE AfterHandler(Dispatch(Machine, FetchOp, FetchA, FetchB), FetchOp, FetchA)

-----------------------------------------------------------------------------
(* load(): the text of one line to the byte it stands for *)

Whitespace == {" ", "\n", "\t", "\r"}

\* line.find(ch): the 0-based index of the first ch, or -1
Find(line, ch) ==
    IF \E i \in 1..Len(line) : line[i] = ch
    THEN (CHOOSE i \in 1..Len(line) : line[i] = ch /\ \A j \in 1..(i - 1) : line[j] # ch) - 1
    ELSE -1

\* line[:stop], a negative stop counting from the end
SliceTo(line, stop) ==
    LET s == IF stop < 0 THEN stop + Len(line) ELSE stop
        e == IF s < 0 THEN 0 ELSE IF s > Len(line) THEN Len(line) ELSE s
    IN  SubSeq(line, 1, e)

\* s.strip()
Strip(s) ==
    LET keep == {i \in 1..Len(s) : s[i] \notin Whitespace}
    IN  IF keep = {} THEN <<>>
        ELSE SubSeq(s, CHOOSE i \in keep : \A j \in keep : i <= j,
                       CHOOSE i \in keep : \A j \in keep : i >= j)

RECURSIVE BinValue(_)
BinValue(s) ==
    IF s = <<>> THEN 0
    ELSE 2 * BinValue(SubSeq(s, 1, Len(s) - 1)) + (IF s[Len(s)] = "1" THEN 1 ELSE 0)

\* int(s, 2) for s over the characters 0 1 + - # x and white space:
\* an optional sign, then one or more binary digits
ParseBin(s) ==
    LET signed == s # <<>> /\ s[1] \in {"+", "-"}
        digits == IF signed THEN Tail(s) ELSE s
    IN  IF digits = <<>> \/ \E i \in 1..Len(digits) : digits[i] \notin {"0", "1"}
        THEN [ok |-> FALSE, val |-> 0]
        ELSE [ok |-> TRUE,
              val |-> IF signed /\ s[1] = "-" THEN 0 - BinValue(digits) ELSE BinValue(digits)]

\* comment_start = line.find("#"); clean_line = line[:comment_start].strip()
clean_line(line) == Strip(SliceTo(line, Find(line, "#")))

\* the body of load()'s loop over the lines: the values appended to program,
\* or the ValueError of int()
RECURSIVE ReadProgram(_)
ReadProgram(lines) ==
    IF lines = <<>> THEN [ok |-> TRUE, program |-> <<>>]
    ELSE LET rest == ReadProgram(SubSeq(lines, 1, Len(lines) - 1))
             c == clean_line(lines[Len(lines)])
         IN  IF ~rest.ok THEN rest
             ELSE IF c = <<>> THEN rest
             ELSE IF ~ParseBin(c).ok THEN [ok |-> FALSE, program |-> rest.program]
             ELSE [ok |-> TRUE, program |-> Append(rest.program, ParseBin(c).val)]

\* address = 0; for instruction in program: self.ram[address] = instruction
WriteProgram(mem, program) ==
    [i \in 0..(RamSize - 1) |-> IF i < Len(program) THEN program[i + 1] ELSE mem[i]]

-----------------------------------------------------------------------------
(* Bounds of the model and the program files it is run on *)

MaxVal == 1        \* register values 0..MaxVal and 255-MaxVal..255
MaxLineLen == 2    \* characters of a line of a free-text program file, before its newline
MaxRuns == 2       \* calls of run()
MaxCycles == 260   \* cycles of one script

Vals == (0..MaxVal) \cup ((255 - MaxVal)..255)

Regs == 0..(RegCount - 1)

Alphabet == {"0", "1", "#", " ", "x"}

Texts == UNION {[1..k -> Alphabet] : k \in 0..MaxLineLen}

\* a literal of more than eight binary digits, and a negative one
LongTexts == {<<"1", "0", "0", "0", "0", "0", "0", "0", "0">>, <<"-", "1">>}

FullLines == {t \o <<"\n">> : t \in Texts \cup LongTexts}

\* a last line that the file does not end with a newline
OpenLines == (Texts \cup LongTexts) \ {<<>>}

\* free text: no line, one line, or two lines, the last with or without its newline
TextFiles ==
    {<<>>} \cup {<<l>> : l \in FullLines \cup OpenLines}
           \cup {<<k, l>> : k \in FullLines, l \in FullLines \cup OpenLines}

\* the text a byte is written as in a program file: eight binary digits or more
RECURSIVE BinText(_, _)
BinText(n, width) ==
    IF width <= 0 /\ n = 0 THEN <<>>
    ELSE Append(BinText(n \div 2, width - 1), IF n % 2 = 1 THEN "1" ELSE "0")

\* the program file of a sequence of bytes, one line each
FileOf(bytes) == [i \in 1..Len(bytes) |-> BinText(bytes[i], 8) \o <<"\n">>]

\* registers of the programs that range over three registers at once
SomeRegs == {0, 1, SP}

\* stack pointers the stack programs start from: 9 puts the pushed cell on the
\* instruction that follows the PUSH
StackTops == Vals \cup {9}

\* LDI a,v ; LDI b,w ; OP a,b ; HLT
AluPrograms ==
    {<<LDI, a, v, LDI, b, w, o, a, b, HLT>> :
        a \in Regs, b \in Regs, v \in Vals, w \in Vals, o \in {ADD, MUL}}

\* LDI a,v ; LDI b,w ; OP a,b ; PRN a ; HLT
TwoRegPrograms ==
    {<<LDI, a, v, LDI, b, w, o, a, b, PRN, a, HLT>> :
        a \in SomeRegs, b \in SomeRegs, v \in Vals, w \in Vals, o \in {LD, CMP, LDI}}

\* LDI a,v ; OP a ; HLT
UnaryPrograms ==
    {<<LDI, a, v, o, a, HLT>> : a \in Regs, v \in Vals, o \in {INC, DEC, PRN, PRA}}

\* LDI R1,255 ; then every byte as an opcode, with operands that are
\* registers and operands that are not ; HLT
OpcodePrograms ==
    {<<LDI, 1, 255, o, x, x + 1, HLT>> : o \in 0..255, x \in {0, RegCount}}

\* LDI r,v ; LDI SP,s ; PUSH r ; POP q ; HLT
StackPrograms ==
    {<<LDI, r, v, LDI, SP, s, PUSH, r, POP, q, HLT>> :
        r \in Regs, q \in Regs, v \in Vals, s \in StackTops}

\* LDI r,x ; LDI SP,s ; NOP (pad times) ; CALL r ; HLT ; RET ; HLT
\* with x the address of the RET or of the HLT before it; with 9 NOPs the
\* return address is 17
CallPrograms ==
    {<<LDI, r, 8 + pad + k, LDI, SP, s>> \o [i \in 1..pad |-> NOP]
        \o <<CALL, r, HLT, RET, HLT>> :
        r \in Regs, s \in StackTops, pad \in {0, 9}, k \in {0, 1}}

\* LDI a,v ; LDI b,w ; LDI r,16 ; CMP a,b ; J r ; HLT ; NOP ; HLT
BranchPrograms ==
    {<<LDI, a, v, LDI, b, w, LDI, r, 16, CMP, a, b, j, r, HLT, NOP, HLT>> :
        a \in SomeRegs, b \in SomeRegs, v \in Vals, w \in Vals, r \in SomeRegs,
        j \in {JEQ, JNE, JMP}}

\* NOP ... NOP ; HLT with the HLT at address 253, 254 or 255
EdgePrograms == {[i \in 1..(n + 1) |-> IF i <= n THEN NOP ELSE HLT] : n \in 253..255}

\* programs whose file holds the nine-digit literal 100000000:
\* LDI R0,256 ; OP R0,R0 ; HLT, then LDI R0,7 ; LD R1,R0 ; HLT ; 256
\* and LDI R0,256 ; PUSH R0 ; POP R1 ; HLT
OversizePrograms ==
    {<<LDI, 0, 256, o, 0, 0, HLT>> : o \in {ADD, MUL, INC, DEC, CMP}}
    \cup {<<LDI, 0, 7, LD, 1, 0, HLT, 256>>, <<LDI, 0, 256, PUSH, 0, POP, 1, HLT>>}

\* LDI SP,s ; PUSH R0 or POP R0 ; OP SP,R0 ; HLT, with s the stack pointer a
\* PUSH takes below 0 or a POP takes above 255
WrapPrograms ==
    {<<LDI, SP, s, k, 0, o, SP, 0, HLT>> :
        s \in {0, 255}, k \in {PUSH, POP}, o \in {CMP, ADD, INC, DEC, PRN, LD}}

\* LDI R0,v ; LDI R1,w ; LDI R2,128 ; LDI SP,s ; PUSH R0 ; PUSH R1 ; PUSH R2 ;
\* POP R3 ; POP R4 ; POP R5 ; HLT
LifoPrograms ==
    {<<LDI, 0, v, LDI, 1, w, LDI, 2, 128, LDI, SP, s,
       PUSH, 0, PUSH, 1, PUSH, 2, POP, 3, POP, 4, POP, 5, HLT>> :
        v \in Vals, w \in Vals, s \in StackTops}

\* three calls deep: CALL R0 at 12 goes to the CALL R1 at 15, which goes to
\* the CALL R2 at 18, which goes to the RET at 21; the RETs at 20 and 17
\* follow the return addresses 20, 17 and 14, where the HLT is
CallNestPrograms ==
    {<<LDI, 0, 15, LDI, 1, 18, LDI, 2, 21, LDI, SP, s,
       CALL, 0, HLT, CALL, 1, RET, CALL, 2, RET, RET>> : s \in StackTops}

\* LDI R0,8 ; LDI R1,9 ; MUL R0,R1 ; PRN R0 ; HLT
ScenarioA == <<LDI, 0, 8, LDI, 1, 9, MUL, 0, 1, PRN, 0, HLT>>

Programs ==
    AluPrograms \cup TwoRegPrograms \cup UnaryPrograms \cup OpcodePrograms
    \cup StackPrograms \cup CallPrograms \cup BranchPrograms \cup EdgePrograms
    \cup OversizePrograms \cup WrapPrograms \cup LifoPrograms \cup CallNestPrograms
    \cup {ScenarioA}

Files == TextFiles \cup {FileOf(p) : p \in Programs}

-----------------------------------------------------------------------------
(* The script: cpu = CPU(); cpu.load(path); cpu.run() *)

NoCycle == [op |-> -1, a |-> 0, b |-> 0, pc |-> 0, reg |-> [i \in Regs |-> 0]]

Init ==
    /\ file \in Files
    /\ stage = "constructed"
    /\ ram = [i \in 0..(RamSize - 1) |-> 0]
    /\ reg = [i \in Regs |-> 0]
    /\ pc = 0
    /\ running = TRUE
    /\ flags = 0
    /\ out = <<>>
    /\ err = "none"
    /\ runs = 0
    /\ cycles = 0
    /\ prev = NoCycle
    /\ prev2 = NoCycle
    /\ byte_image = TRUE
    /\ nest = [stack |-> <<>>, unwound |-> 0]
    /\ stretch = [base |-> 0, n |-> 0, straight |-> TRUE]

\* cpu.load(sys.argv[1]): the whole of load(), the file read and closed
Load ==
    /\ stage = "constructed"
    /\ LET r == ReadProgram(file)
       IN  IF ~r.ok
           THEN /\ err' = "ValueError"
                /\ stage' = "failed"
                /\ ram' = ram
           ELSE IF Len(r.program) > RamSize
           THEN /\ err' = "IndexError"
                /\ stage' = "failed"
                /\ ram' = WriteProgram(ram, r.program)
           ELSE /\ err' = "none"
                /\ stage' = "loaded"
                /\ ram' = WriteProgram(ram, r.program)
    /\ file' = <<>>
    /\ byte_image' = (\A i \in 0..(RamSize - 1) : ram'[i] \in 0..255)
    /\ UNCHANGED <<reg, pc, running, flags, out, runs, cycles, prev, prev2, nest, stretch>>

\* cpu.run() is called
RunCall ==
    /\ stage \in {"loaded", "returned"}
    /\ runs < MaxRuns
    /\ stage' = "running"
    /\ runs' = runs + 1
    /\ UNCHANGED <<file, ram, reg, pc, running, flags, out, err, cycles, prev, prev2,
                   byte_image, nest, stretch>>

\* while self.running: is false, run() returns
RunReturn ==
    /\ stage = "running"
    /\ ~running
    /\ stage' = "returned"
    /\ UNCHANGED <<file, ram, reg, pc, running, flags, out, err, runs, cycles, prev, prev2,
                   byte_image, nest, stretch>>

\* a loop that does not test self.running
CycleReadyAlways == stage = "running" /\ cycles < MaxCycles

\* the loop body is entered
CycleReady == stage = "running" /\ running /\ cycles < MaxCycles

\* the record of open PUSHes and CALLs after the cycle at pc completes: a PUSH
\* or CALL adds the value it stores and the stack pointer it found, a POP into
\* a register other than SP or a RET undoes the last one, and any other
\* instruction starts the record afresh
Nested(n) ==
    CASE FetchOp = PUSH ->
            [stack |-> Append(n.stack,
                              [op |-> PUSH, val |-> reg[Index(FetchA, RegCount)], sp |-> reg[SP]]),
             unwound |-> 0]
      [] FetchOp = CALL ->
            [stack |-> Append(n.stack, [op |-> CALL, val |-> pc + 2, sp |-> reg[SP]]),
             unwound |-> 0]
      [] /\ n.stack # <<>>
         /\ \/ FetchOp = RET
            \/ FetchOp = POP /\ Index(FetchA, RegCount) # SP ->
            [stack |-> SubSeq(n.stack, 1, Len(n.stack) - 1), unwound |-> n.unwound + 1]
      [] OTHER -> [stack |-> <<>>, unwound |-> 0]

\* the state after one pass m of the loop body
Commit(result) ==
  LET m == result IN
    /\ ram' = m.ram
    /\ reg' = m.reg
    /\ pc' = m.pc
    /\ running' = m.running
    /\ flags' = m.flags
    /\ out' = m.out
    /\ err' = m.err
    /\ stage' = IF Failed(m) THEN "failed" ELSE "running"
    /\ cycles' = cycles + 1
    /\ prev' = IF Failed(m) THEN prev
               ELSE [op |-> FetchOp, a |-> FetchA, b |-> FetchB, pc |-> pc, reg |-> reg]
    /\ prev2' = IF Failed(m) THEN prev2 ELSE prev
    /\ nest' = IF Failed(m) THEN nest ELSE Nested(nest)
    /\ stretch' = IF Failed(m) THEN stretch
                  ELSE IF sets_pc(FetchOp) THEN [base |-> m.pc, n |-> 0, straight |-> FALSE]
                  ELSE [stretch EXCEPT !.n = stretch.n + 1]
    /\ UNCHANGED <<file, runs, byte_image>>

\* the loop body is entered and fetches the opcode opc
Fetched(opc) == CycleReady /\ FetchOK /\ FetchOp = opc

\* op = self.ram[self.pc], a = self.ram[self.pc + 1] or b = self.ram[self.pc + 2] raises
FetchFault == CycleReady /\ ~FetchOK /\ Commit(CycleResult)

\* raise Exception(f"Invalid opcode ...")
InvalidOpcode ==
    CycleReady /\ FetchOK /\ FetchOp \notin instruction_table /\ Commit(CycleResult)

\* the handler is self.unimplemented_op
Unimplemented == \E opc \in Placeholder : Fetched(opc) /\ Commit(CycleResult)

OpNop == Fetched(NOP) /\ Commit(CycleResult)
OpHlt == Fetched(HLT) /\ Commit(CycleResult)
OpLdi == Fetched(LDI) /\ Commit(CycleResult)
OpLd == Fetched(LD) /\ Commit(CycleResult)
OpAdd == Fetched(ADD) /\ Commit(CycleResult)
OpMul == Fetched(MUL) /\ Commit(CycleResult)
OpInc == Fetched(INC) /\ Commit(CycleResult)
OpDec == Fetched(DEC) /\ Commit(CycleResult)
OpPrn == Fetched(PRN) /\ Commit(CycleResult)
OpPra == Fetched(PRA) /\ Commit(CycleResult)
OpPush == Fetched(PUSH) /\ Commit(CycleResult)
OpPop == Fetched(POP) /\ Commit(CycleResult)
OpCall == Fetched(CALL) /\ Commit(CycleResult)
OpRet == Fetched(RET) /\ Commit(CycleResult)
OpCmp == Fetched(CMP) /\ Commit(CycleResult)
OpJeq == Fetched(JEQ) /\ Commit(CycleResult)
OpJne == Fetched(JNE) /\ Commit(CycleResult)
OpJmp == Fetched(JMP) /\ Commit(CycleResult)

Next ==
    \/ Load
    \/ RunCall
    \/ RunReturn
    \/ FetchFault
    \/ InvalidOpcode
    \/ Unimplemented
    \/ OpNop
    \/ OpHlt
    \/ OpLdi
    \/ OpLd
    \/ OpAdd
    \/ OpMul
    \/ OpInc
    \/ OpDec
    \/ OpPrn
    \/ OpPra
    \/ OpPush
    \/ OpPop
    \/ OpCall
    \/ OpRet
    \/ OpCmp
    \/ OpJeq
    \/ OpJne
    \/ OpJmp

Spec == Init /\ [][Next]_vars

-----------------------------------------------------------------------------
(* Properties *)

\* the last cycle completed and its opcode was opc
Completed(opc) == err = "none" /\ prev.op = opc

\* the last two cycles completed, with opcodes first and then
CompletedPair(first, then) == err = "none" /\ prev2.op = first /\ prev.op = then

Byte == 0..255

\* C1: with reg[a] = v and reg[b] = w both in 0..255 and a, b in 0..7 (a = b
\* included), a completed ADD a,b leaves reg[a] = (v + w) mod 256, MUL a,b
\* leaves (v * w) mod 256, INC a leaves (v + 1) mod 256 and DEC a leaves
\* (v - 1) mod 256.
C1_AluResults ==
    \A o \in {ADD, MUL, INC, DEC} :
        (/\ Completed(o)
         /\ prev.a \in Regs
         /\ prev.reg[prev.a] \in Byte
         /\ o \in {ADD, MUL} => (prev.b \in Regs /\ prev.reg[prev.b] \in Byte))
        => LET v == prev.reg[prev.a]
               w == IF prev.b \in Regs THEN prev.reg[prev.b] ELSE 0
           IN  reg[prev.a] = CASE o = ADD -> (v + w) % 256
                               [] o = MUL -> (v * w) % 256
                               [] o = INC -> (v + 1) % 256
                               [] o = DEC -> (v - 1) % 256

\* a MUL a,a of 255 has wrapped to 1
C1_Witness ==
    /\ Completed(MUL)
    /\ prev.a = prev.b
    /\ prev.a \in Regs
    /\ prev.reg[prev.a] = 255
    /\ reg[prev.a] = 1

\* C2 as stated: a completed PUSH R followed at once by a completed POP Q,
\* R and Q in 0..7, leaves reg[Q] equal to reg[R] before the PUSH and SP equal
\* to its value before the PUSH.
C2_Original ==
    (CompletedPair(PUSH, POP) /\ prev2.a \in Regs /\ prev.a \in Regs)
    => /\ reg[prev.a] = prev2.reg[prev2.a]
       /\ reg[SP] = prev2.reg[SP]

\* C2 amended: reg[Q] equals reg[R] before the PUSH; SP equals its value
\* before the PUSH when Q is not SP (when Q = SP, register 7 holds the popped
\* value).
C2_RoundTrip ==
    (CompletedPair(PUSH, POP) /\ prev2.a \in Regs /\ prev.a \in Regs)
    => /\ reg[prev.a] = prev2.reg[prev2.a]
       /\ prev.a # SP => reg[SP] = prev2.reg[SP]

\* 255 pushed from one register with SP = 0 and popped into another
C2_Witness ==
    /\ CompletedPair(PUSH, POP)
    /\ prev2.a \in Regs \ {SP}
    /\ prev.a \in Regs \ {SP, prev2.a}
    /\ prev2.reg[SP] = 0
    /\ prev2.reg[prev2.a] = 255
    /\ reg[prev.a] = 255
    /\ reg[SP] = 0

\* the cell SP addresses
StackTop == ram[Index(reg[SP], RamSize)]

\* C3 as stated: a completed CALL R at call_site, R in 0..7 holding X, has
\* pushed call_site + 2 and set PC to X; a RET completed next sets PC to
\* call_site + 2 and SP to its value before the CALL.
C3_Original ==
    /\ (Completed(CALL) /\ prev.a \in Regs)
       => /\ reg[SP] = prev.reg[SP] - 1
          /\ StackTop = prev.pc + 2
          /\ pc = prev.reg[prev.a]
    /\ (CompletedPair(CALL, RET) /\ prev2.a \in Regs)
       => /\ pc = prev2.pc + 2
          /\ reg[SP] = prev2.reg[SP]

\* C3 amended: PC is set to X for R in 0..6, and for R = 7 to X - 1, the
\* stack pointer after the push; the rest as stated.
C3_CallReturn ==
    /\ (Completed(CALL) /\ prev.a \in Regs)
       => /\ reg[SP] = prev.reg[SP] - 1
          /\ StackTop = prev.pc + 2
          /\ pc = IF prev.a = SP THEN prev.reg[SP] - 1 ELSE prev.reg[prev.a]
    /\ (CompletedPair(CALL, RET) /\ prev2.a \in Regs)
       => /\ pc = prev2.pc + 2
          /\ reg[SP] = prev2.reg[SP]

\* a RET executed at the address X that the CALL's register held
C3_Witness ==
    /\ CompletedPair(CALL, RET)
    /\ prev2.a \in Regs \ {SP}
    /\ prev.pc = prev2.reg[prev2.a]
    /\ prev.pc # prev2.pc + 2
    /\ pc = prev2.pc + 2

\* C4: a completed CMP a,b leaves in flags exactly one of Equal (1),
\* Greater (2), Less (4), and Equal exactly when reg[a] = reg[b]; a JEQ R
\* completed next leaves PC = reg[R] if Equal is set and its own address + 2
\* if not; a JNE R completed next leaves PC = reg[R] if Equal is clear and its
\* own address + 2 if not.
C4_CompareBranch ==
    /\ (Completed(CMP) /\ prev.a \in Regs /\ prev.b \in Regs)
       => /\ flags \in {1, 2, 4}
          /\ flags = 1 <=> prev.reg[prev.a] = prev.reg[prev.b]
    /\ (CompletedPair(CMP, JEQ) /\ prev.a \in Regs)
       => pc = IF flags % 2 = 1 THEN prev.reg[prev.a] ELSE prev.pc + 2
    /\ (CompletedPair(CMP, JNE) /\ prev.a \in Regs)
       => pc = IF flags % 2 = 0 THEN prev.reg[prev.a] ELSE prev.pc + 2

\* a JNE after a CMP of equal registers has fallen through
C4_Witness ==
    /\ CompletedPair(CMP, JNE)
    /\ flags = 1
    /\ prev.a \in Regs
    /\ prev.reg[prev.a] # prev.pc + 2
    /\ pc = prev.pc + 2

\* C5: running becomes false only in a cycle that fetches HLT, and that cycle
\* completes, leaving PC at the HLT's address + 1; once running is false it
\* stays false and ram, reg, pc, flags and the output never change again,
\* whatever further call of run() is made.
C5_Halted ==
    [][/\ (running /\ ~running')
          => (CycleReady /\ FetchOK /\ FetchOp = HLT /\ pc' = pc + 1 /\ err' = "none")
       /\ ~running
          => (~running' /\ UNCHANGED <<ram, reg, pc, flags, out, err, cycles>>)]_vars

\* run() has been called again on the halted machine and has returned
C5_Witness ==
    /\ ~running
    /\ prev.op = HLT
    /\ pc = prev.pc + 1
    /\ runs = 2
    /\ stage = "returned"

\* the opcodes C6 lists as placeholders
C6_Listed ==
    {SUB, DIV, MOD, AND, NOT, OR, XOR, SHL, SHR, JGE, JGT, JLE, JLT, ST, INT, IRET}

C7_Original ==
    (stage = "failed" /\ cycles > 0) => err \in {"UnknownOpcode", "UnimplementedOpcode"}

\* the memory of a freshly constructed machine after loading ScenarioA
ImageA == ram = WriteProgram([i \in 0..(RamSize - 1) |-> 0], ScenarioA)

\* C8: on ScenarioA the run never fails, halts with its fifth cycle, and in
\* HALTED the output is "72" (code points 55, 50) and reg[0] = 72.
C8_ScenarioA ==
    (ImageA /\ stage # "constructed")
    => /\ err = "none"
       /\ stage # "failed"
       /\ cycles <= 5
       /\ ~running <=> cycles = 5
       /\ ~running => (out = <<55, 50>> /\ reg[0] = 72)

\* ScenarioA has run to HALTED and run() has returned
C8_Witness ==
    /\ ImageA
    /\ stage = "returned"
    /\ ~running
    /\ out = <<55, 50>>
    /\ reg[0] = 72

\* a line cut at its first '#', whole if it has none, and trimmed
C9_Text(line) ==
    Strip(IF Find(line, "#") = -1 THEN line ELSE SubSeq(line, 1, Find(line, "#")))

\* a text that is a base-2 literal of one byte
C9_IsByte(t) ==
    /\ t # <<>>
    /\ \A i \in 1..Len(t) : t[i] \in {"0", "1"}
    /\ BinValue(t) \in Byte

\* the accepted lines of a file, in file order
C9_Accepted(lines) == SelectSeq(lines, LAMBDA l : C9_Text(l) # <<>>)

\* the bytes the accepted lines stand for
C9_Bytes(lines) ==
    [i \in 1..Len(C9_Accepted(lines)) |-> BinValue(C9_Text(C9_Accepted(lines)[i]))]

\* C9 as stated: when every accepted line of the file is a base-2 byte, load
\* succeeds and cell i holds the value of the i-th accepted line, for every
\* line of the file, a last line without a newline included.
C9_Original ==
    [][(/\ stage = "constructed"
        /\ \A i \in 1..Len(file) : C9_Text(file[i]) # <<>> => C9_IsByte(C9_Text(file[i])))
       => (/\ stage' = "loaded"
           /\ ram' = WriteProgram(ram, C9_Bytes(file)))]_vars

\* C10 as stated: when some accepted line of the file is not a base-2 literal
\* of one byte, load fails, nothing has been written to memory, registers, pc
\* and flags are as constructed, and no cycle ever runs.
C10_Original ==
    [][/\ (/\ stage = "constructed"
           /\ \E i \in 1..Len(file) :
                 C9_Text(file[i]) # <<>> /\ ~C9_IsByte(C9_Text(file[i])))
          => (/\ stage' = "failed"
              /\ err' = "ValueError"
              /\ UNCHANGED <<ram, reg, pc, flags, running, out, cycles>>)
       /\ err = "ValueError" => UNCHANGED <<ram, reg, pc, flags, running, out, cycles>>]_vars

\* the implemented opcodes with bit 4 clear, and those with bit 4 set
Sequential == {NOP, HLT, LDI, LD, ADD, MUL, INC, DEC, CMP, PUSH, POP, PRN, PRA}

Transfers == {CALL, RET, JMP, JEQ, JNE}

\* C11: for every implemented opcode with bit 4 clear (NOP, HLT, LDI, LD, ADD,
\* MUL, INC, DEC, CMP, PUSH, POP, PRN, PRA) a completed cycle leaves
\* PC = old PC + 1 + (opcode >> 6); for every implemented opcode with bit 4 set
\* (CALL, RET, JMP, JEQ, JNE) nothing is added and the new PC is the value the
\* handler assigned: the register's value for CALL and JMP, the popped value
\* for RET, the register's value or old PC + 2 for JEQ and JNE.
C11_PcAdvance ==
    /\ Sequential \cup Transfers = Implemented
    /\ \A o \in Sequential :
          /\ (o \div 16) % 2 = 0
          /\ Completed(o) => pc = prev.pc + 1 + (o \div 64)
    /\ \A o \in Transfers : (o \div 16) % 2 = 1
    /\ Completed(CALL)
       => pc = IF Index(prev.a, RegCount) = SP THEN prev.reg[SP] - 1
               ELSE prev.reg[Index(prev.a, RegCount)]
    /\ Completed(RET) => pc = ram[Index(prev.reg[SP], RamSize)]
    /\ Completed(JMP) => pc = prev.reg[Index(prev.a, RegCount)]
    /\ Completed(JEQ)
       => pc = IF flags % 2 = 1 THEN prev.reg[Index(prev.a, RegCount)] ELSE prev.pc + 2
    /\ Completed(JNE)
       => pc = IF flags % 2 = 0 THEN prev.reg[Index(prev.a, RegCount)] ELSE prev.pc + 2

\* a CMP at 9 has advanced PC by 3 and the JEQ after it has jumped to 16,
\* which is not the address after the JEQ
C11_Witness ==
    /\ CompletedPair(CMP, JEQ)
    /\ prev.pc = prev2.pc + 3
    /\ pc = prev.reg[prev.a]
    /\ pc = 16
    /\ pc # prev.pc + 2


\* C12: after any completed cycle of an opcode with bit 5 set (ADD, MUL, INC,
\* DEC, CMP) reg[A] is in 0..255, whatever the registers held before; after a
\* completed cycle of LDI, LD or POP, whose bit 5 is clear, reg[A] is the
\* value written (the literal, the memory cell, the popped cell), unmasked.
C12_AluMasking ==
    /\ \A o \in {ADD, MUL, INC, DEC, CMP} :
          /\ (o \div 32) % 2 = 1
          /\ Completed(o) => reg[Index(prev.a, RegCount)] \in Byte
    /\ \A o \in {LDI, LD, POP} : (o \div 32) % 2 = 0
    /\ Completed(LDI) => reg[Index(prev.a, RegCount)] = prev.b
    /\ Completed(LD)
       => reg[Index(prev.a, RegCount)]
            = ram[Index(prev.reg[Index(prev.b, RegCount)], RamSize)]
    /\ Completed(POP)
       => reg[Index(prev.a, RegCount)] = ram[Index(prev.reg[SP], RamSize)]

\* LDI has stored the literal 256 as it is, and the ADD after it has left
\* the register it found at 256 in 0..255
C12_Witness ==
    /\ CompletedPair(LDI, ADD)
    /\ prev2.b = 256
    /\ prev.a = prev2.a
    /\ prev.reg[prev.a] = 256
    /\ reg[prev.a] = 0


\* C13: from a freshly constructed machine and a memory image of values
\* 0..255, every register, SP included, holds a value in 0..255 in every
\* reachable state; a PUSH or CALL at SP = 0 and a POP or RET at SP = 255
\* leave SP in 0..255.
C13_Original == byte_image => \A i \in Regs : reg[i] \in Byte


\* C14: in every state reachable from a freshly constructed machine with a
\* memory image of values 0..255, a completed CMP a,b sets the flags by the
\* three-way comparison of reg[a] mod 256 and reg[b] mod 256.
C14_Original ==
    (byte_image /\ Completed(CMP))
    => flags = CmpFlags(prev.reg[Index(prev.a, RegCount)] % 256,
                        prev.reg[Index(prev.b, RegCount)] % 256)


\* C15: the flags are 0 at construction, every step other than a completed
\* CMP cycle (JEQ and JNE, taken or not, and every failing cycle included)
\* leaves them unchanged, and their value is always one of 0, 1, 2, 4.
C15_FlagsByCompare ==
    [][/\ stage = "constructed" => flags = 0
       /\ flags \in {0, 1, 2, 4}
       /\ flags' \in {0, 1, 2, 4}
       /\ flags' # flags => (Fetched(CMP) /\ err' = "none")]_vars

\* a CMP of equal registers has set the Equal flag and the JEQ after it has
\* jumped and left the flag set
C15_Witness ==
    /\ CompletedPair(CMP, JEQ)
    /\ prev2.reg[prev2.a] = prev2.reg[prev2.b]
    /\ pc = prev.reg[prev.a]
    /\ flags = 1


\* C16: after n PUSHes of v1..vn and then n POPs into registers other than
\* SP, with no other instruction in between and SP starting in n..255 (so
\* every PUSH finds SP in 1..255), each POP returns the value of the last
\* PUSH not yet undone and leaves SP as that PUSH found it, so the POPs return
\* vn..v1 and SP ends at its starting value; in the same way each of n RETs
\* after n CALLs resumes at the site + 2 of the last CALL not yet undone.
C16_Lifo ==
    [][LET top == nest.stack[Len(nest.stack)]
       IN  (/\ nest.stack # <<>>
            /\ \A i \in DOMAIN nest.stack : nest.stack[i].sp \in 1..255
            /\ err' = "none")
           => /\ (Fetched(POP) /\ Index(FetchA, RegCount) # SP /\ top.op = PUSH)
                 => /\ reg'[Index(FetchA, RegCount)] = top.val
                    /\ reg'[SP] = top.sp
              /\ (Fetched(RET) /\ top.op = CALL)
                 => /\ pc' = top.val
                    /\ reg'[SP] = top.sp]_vars

\* three PUSHes of R0, R1, R2 with SP starting in 3..255 have been undone by
\* three POPs into R3, R4, R5, which hold the values in reverse order
C16_Witness ==
    /\ CompletedPair(POP, POP)
    /\ nest = [stack |-> <<>>, unwound |-> 3]
    /\ reg[SP] \in 3..255
    /\ reg[3] = reg[2] /\ reg[4] = reg[1] /\ reg[5] = reg[0]
    /\ reg[0] # reg[1] /\ reg[1] # reg[2] /\ reg[0] # reg[2]


\* C17: every completed cycle of an instruction without the sets_pc bit
\* starts with PC in -256..253 and leaves PC strictly greater and at most 256,
\* so the cycles completed since the last sets_pc instruction (or the start)
\* number at most PC minus the PC that instruction left; a run in which no
\* sets_pc instruction has been executed has started at most 256 cycles.
\* A run can therefore continue only through another sets_pc instruction.
C17_StraightLine ==
    [][cycles' = cycles + 1
       => /\ (err' = "none" /\ ~sets_pc(FetchOp))
             => (pc \in -256..253 /\ pc' > pc /\ pc' <= 256)
          /\ err' = "none" => stretch'.n <= pc' - stretch'.base
          /\ stretch'.straight => (cycles' <= 256 /\ stretch'.base = 0)]_vars

\* the longest run without a sets_pc instruction: 254 NOPs completed, and the
\* 255th cycle fails on its fetch at address 254
C17_Witness ==
    /\ stretch = [base |-> 0, n |-> 254, straight |-> TRUE]
    /\ cycles = 255
    /\ pc = 254
    /\ err = "IndexError"


\* C18: in every state reachable from a freshly constructed machine with a
\* memory image of values 0..255, a completed CMP a,b leaves all eight
\* registers and all memory cells as they were.
C18_Original ==
    [][(byte_image /\ Fetched(CMP) /\ err' = "none") => UNCHANGED <<reg, ram>>]_vars

\* C19: during run a step changes memory only if it is a cycle of PUSH or
\* CALL, and then only the cell addressed by the decremented SP; a failing
\* cycle changes no cell; the memory always has exactly 256 cells.
C19_Original ==
    [][stage = "running"
       => /\ DOMAIN ram' = 0..255
          /\ ram' # ram
             => /\ Fetched(PUSH) \/ Fetched(CALL)
                /\ \A i \in 0..255 :
                      i # Index(reg[SP] - 1, RamSize) => ram'[i] = ram[i]
          /\ err' # "none" => ram' = ram]_vars


=============================================================================
